---- MODULE Spec2Model ----
(***************************************************************************)
(* The BuildingList page of src/src/pages/BuildingList.jsx: the component  *)
(* state, the initial fetch, the search & filter effect, the crackStats    *)
(* memo and the per-building metrics of BuildingCard.                      *)
(*                                                                         *)
(* Representation.  Widths are integers in hundredths of a millimetre      *)
(* (0.3 mm = 30), so that the thresholds and the sums are exact.  A JSON   *)
(* null (or missing) number is Null.  An absent object property is a field *)
(* that is not in the DOMAIN of the record.  A string is a sequence of     *)
(* one-character strings.  Buildings get their id from their position in   *)
(* the response, so ids are unique as the API delivers them.               *)
(***************************************************************************)
EXTENDS Integers, Sequences, FiniteSets, TLC

VARIABLES
    buildings,          \* useState([])    line 107
    filteredBuildings,  \* useState([])    line 108
    loading,            \* useState(true)  line 109
    error,              \* useState()      line 110
    searchTerm,         \* useState("")    line 111
    activeFilters,      \* useState([])    line 112
    crackStats,         \* the value of the useMemo of lines 172-205
    fetchCount,         \* number of GET /buildings issued so far
    response,           \* the fetch: not sent, pending, or the outcome delivered
    lastDeps            \* dependency values the filter effect last ran with

vars == <<buildings, filteredBuildings, loading, error, searchTerm,
          activeFilters, crackStats, fetchCount, response, lastDeps>>

-----------------------------------------------------------------------------
(* Bounds of the model *)

MaxBuildings == 2
MaxTermLen == 2
MaxCracks == 2
MaxStatBuildings == 4

-----------------------------------------------------------------------------
(* Values *)

Null == -1
Unset == "undefined"

SEVERE == "severe"
CAUTION == "caution"
OBSERVE == "observe"

SevereThreshold == 30
CautionThreshold == 20
TopN == 3

FilterLabels == <<SEVERE, CAUTION, OBSERVE>>

LoadFailedMessage == "load failed"
NetworkErrorMessage == "Failed to fetch"
JsonErrorMessage == "Unexpected token"

Has(obj, field) == field \in DOMAIN obj

-----------------------------------------------------------------------------
(* Sequence helpers standing for the Array built-ins the code calls *)

\* flat: a list of lists, concatenated (what flatMap does to map's result)
RECURSIVE Flat(_)
Flat(ss) == IF ss = <<>> THEN <<>> ELSE Head(ss) \o Flat(Tail(ss))

RECURSIVE Sum(_)
Sum(s) == IF s = <<>> THEN 0 ELSE Head(s) + Sum(Tail(s))

RECURSIVE MathMax(_)
MathMax(s) ==
    IF Len(s) = 1 THEN Head(s)
    ELSE LET m == MathMax(Tail(s)) IN IF Head(s) >= m THEN Head(s) ELSE m

Includes(s, x) == \E i \in 1..Len(s) : s[i] = x

-----------------------------------------------------------------------------
(* String built-ins: toLowerCase, trim, includes *)

LowerOf(c) == IF c = "A" THEN "a" ELSE IF c = "B" THEN "b" ELSE c

toLowerCase(s) == [i \in 1..Len(s) |-> LowerOf(s[i])]

RECURSIVE trimStart(_)
trimStart(s) ==
    IF s /= <<>> /\ Head(s) = " " THEN trimStart(Tail(s)) ELSE s

RECURSIVE trimEnd(_)
trimEnd(s) ==
    IF s /= <<>> /\ s[Len(s)] = " " THEN trimEnd(SubSeq(s, 1, Len(s) - 1)) ELSE s

trim(s) == trimEnd(trimStart(s))

RECURSIVE startsWithAt(_, _, _)
startsWithAt(s, t, k) ==
    \/ t = <<>>
    \/ /\ k <= Len(s)
       /\ s[k] = Head(t)
       /\ startsWithAt(s, Tail(t), k + 1)

strIncludes(s, t) == \E k \in 1..(Len(s) + 1) : startsWithAt(s, t, k)

-----------------------------------------------------------------------------
(* getCrackSeverity, lines 115-120 *)

\* getCrackSeverity with > for >=
getCrackSeverity_strict(maxWidthMm) ==
    IF maxWidthMm = Null THEN OBSERVE
    ELSE IF maxWidthMm > SevereThreshold THEN SEVERE
    ELSE IF maxWidthMm > CautionThreshold THEN CAUTION
    ELSE OBSERVE

getCrackSeverity(maxWidthMm) ==
    IF maxWidthMm = Null THEN OBSERVE
    ELSE IF maxWidthMm >= SevereThreshold THEN SEVERE
    ELSE IF maxWidthMm >= CautionThreshold THEN CAUTION
    ELSE OBSERVE

-----------------------------------------------------------------------------
(* The non-null widths of a building, lines 156-161 and 177-182 *)

waypointWidths(wp) ==
    IF Has(wp, "cracks")
    THEN SelectSeq([i \in 1..Len(wp.cracks) |-> wp.cracks[i].widthMm], LAMBDA w : w /= Null)
    ELSE <<>>

buildingWidths(b) ==
    IF Has(b, "waypoints")
    THEN Flat([i \in 1..Len(b.waypoints) |-> waypointWidths(b.waypoints[i])])
    ELSE <<>>

-----------------------------------------------------------------------------
(* The search & filter effect's computation, lines 143-166 *)

\* matchesTerm without toLowerCase on the building's fields
matchesTerm_caseSensitive(b, term) ==
    \/ term = <<>>
    \/ Has(b, "name") /\ strIncludes(b.name, term)
    \/ Has(b, "address") /\ strIncludes(b.address, term)

matchesTerm(b, term) ==
    \/ term = <<>>
    \/ Has(b, "name") /\ strIncludes(toLowerCase(b.name), term)
    \/ Has(b, "address") /\ strIncludes(toLowerCase(b.address), term)

\* filterMaxWidth looking at the first waypoint only
filterMaxWidth_firstWaypoint(b) ==
    LET widths == IF Has(b, "waypoints") /\ b.waypoints /= <<>>
                  THEN waypointWidths(b.waypoints[1])
                  ELSE <<>>
    IN  IF Len(widths) > 0 THEN MathMax(widths) ELSE Null

filterMaxWidth(b) ==
    LET widths == buildingWidths(b)
    IN  IF Len(widths) > 0 THEN MathMax(widths) ELSE Null

matchesSeverity(b, filters) ==
    LET severity == getCrackSeverity(filterMaxWidth(b))
    IN  Includes(filters, severity)

\* filterResult without the activeFilters.length > 0 test of line 154
filterResult_alwaysBySeverity(bs, rawTerm, filters) ==
    LET term == toLowerCase(trim(rawTerm))
        result == SelectSeq(bs, LAMBDA b : matchesTerm(b, term))
    IN  SelectSeq(result, LAMBDA b : matchesSeverity(b, filters))

filterResult(bs, rawTerm, filters) ==
    LET term == toLowerCase(trim(rawTerm))
        result == SelectSeq(bs, LAMBDA b : matchesTerm(b, term))
    IN  IF Len(filters) > 0
        THEN SelectSeq(result, LAMBDA b : matchesSeverity(b, filters))
        ELSE result

-----------------------------------------------------------------------------
(* crackStats, lines 172-205.  A metric is the exact fraction <<n, d>>.    *)

statsEntry(b) ==
    LET widths == buildingWidths(b)
        count == Len(widths)
    IN  [id |-> b.id,
         crackCount |-> count,
         maxWidth |-> MathMax(widths),
         avgWidth |-> <<Sum(widths), count>>]

statsOf(bs) ==
    Flat([i \in 1..Len(bs) |->
              IF Len(buildingWidths(bs[i])) > 0 THEN <<statsEntry(bs[i])>> ELSE <<>>])

totalCracksOf(bs) == Sum([i \in 1..Len(bs) |-> Len(buildingWidths(bs[i]))])

metric(e, key) ==
    IF key = "avgWidth" THEN e.avgWidth
    ELSE IF key = "maxWidth" THEN <<e.maxWidth, 1>>
    ELSE <<e.crackCount, 1>>

\* the comparator a[key] - b[key]: ascending
comesBefore_ascending(b, a, key) ==
    LET mb == metric(b, key)
        ma == metric(a, key)
    IN  mb[1] * ma[2] < ma[1] * mb[2]

\* the comparator (a, b) => b[key] - a[key] is positive: b goes before a
comesBefore(b, a, key) ==
    LET mb == metric(b, key)
        ma == metric(a, key)
    IN  mb[1] * ma[2] > ma[1] * mb[2]

\* Array.prototype.sort is stable: e goes after every entry it does not beat
RECURSIVE insertSorted(_, _, _)
insertSorted(sorted, e, key) ==
    IF sorted = <<>> THEN <<e>>
    ELSE IF comesBefore(e, Head(sorted), key) THEN <<e>> \o sorted
    ELSE <<Head(sorted)>> \o insertSorted(Tail(sorted), e, key)

RECURSIVE sortDesc(_, _)
sortDesc(s, key) ==
    IF s = <<>> THEN <<>>
    ELSE insertSorted(sortDesc(SubSeq(s, 1, Len(s) - 1), key), s[Len(s)], key)

slice(s, n) == SubSeq(s, 1, IF Len(s) < n THEN Len(s) ELSE n)

sortBy(stats, key) == slice(sortDesc(stats, key), TopN)

computeCrackStats(bs) ==
    LET stats == statsOf(bs)
    IN  [totalCracks |-> totalCracksOf(bs),
         sortedByCount |-> sortBy(stats, "crackCount"),
         sortedByWidth |-> sortBy(stats, "maxWidth"),
         sortedByAvgWidth |-> sortBy(stats, "avgWidth")]

-----------------------------------------------------------------------------
(* BuildingCard, lines 17-36 *)

\* cardCracks reading the first waypoint only
cardCracks_firstWaypoint(b) ==
    IF Has(b, "waypoints") /\ b.waypoints /= <<>> /\ Has(b.waypoints[1], "cracks")
    THEN b.waypoints[1].cracks
    ELSE <<>>

cardCracks(b) ==
    IF Has(b, "waypoints")
    THEN Flat([i \in 1..Len(b.waypoints) |->
                   IF Has(b.waypoints[i], "cracks") THEN b.waypoints[i].cracks ELSE <<>>])
    ELSE <<>>

widthOrZero(c) == IF c.widthMm = Null \/ c.widthMm = 0 THEN 0 ELSE c.widthMm

\* (x).toFixed(2) of sum / count, in hundredths: the nearest integer
toFixed2(sum, count) == (2 * sum + count) \div (2 * count)

\* the metrics of lines 24-36, and whether computing them threw
cardMetrics(cracks) ==
    LET crackCount == Len(cracks)
    IN  [threw |-> FALSE,
         crackCount |-> crackCount,
         lastChecked |-> IF Len(cracks) > 0
                         THEN MathMax([i \in 1..Len(cracks) |-> cracks[i].timestamp])
                         ELSE Null,
         maxWidth |-> IF Len(cracks) > 0
                      THEN MathMax([i \in 1..Len(cracks) |-> widthOrZero(cracks[i])])
                      ELSE 0,
         avgWidth |-> IF Len(cracks) > 0
                      THEN toFixed2(Sum([i \in 1..Len(cracks) |-> widthOrZero(cracks[i])]), crackCount)
                      ELSE 0]

\* BuildingCard with wp.cracks.map for wp.cracks?.map: a TypeError when a
\* waypoint has no cracks field
BuildingCard_noOptionalChaining(b) ==
    IF Has(b, "waypoints") /\ \E i \in 1..Len(b.waypoints) : ~Has(b.waypoints[i], "cracks")
    THEN [threw |-> TRUE, crackCount |-> 0, lastChecked |-> Null, maxWidth |-> 0,
          avgWidth |-> 0]
    ELSE cardMetrics(cardCracks(b))

BuildingCard(b) == cardMetrics(cardCracks(b))

-----------------------------------------------------------------------------
(* What the server may deliver.  A building of a pool has no id yet; the   *)
(* response gives the i-th building the id i.                              *)

crack(w, t) == [widthMm |-> w, timestamp |-> t]

withIds(shapes) == [i \in 1..Len(shapes) |-> ("id" :> i) @@ shapes[i]]

SeqsUpTo(S, n) == UNION {[1..k -> S] : k \in 0..n}

\* the page's life cycle: one building of each severity, with and without
\* name, address, waypoints and cracks; lists of up to MaxBuildings of them
LifePool ==
    { [name |-> <<"A", "b">>, address |-> <<"b", " ", "A">>,
       waypoints |-> <<[label |-> "w1", cracks |-> <<crack(35, 2), crack(Null, 3)>>]>>],
      [name |-> <<"B">>],
      [address |-> <<"a">>,
       waypoints |-> <<[label |-> "w1", cracks |-> <<>>],
                       [label |-> "w2", cracks |-> <<crack(20, 1)>>]>>],
      [waypoints |-> <<[label |-> "w1"]>>] }

Responses == {withIds(s) : s \in SeqsUpTo(LifePool, MaxBuildings)}

LifeTerms == {<<>>, <<" ">>, <<"a">>, <<" ", "B">>, <<"a", "b">>}

\* the text filter: one building with every combination of name and address,
\* every term of up to MaxTermLen characters
SearchStrings == {<<>>, <<"a">>, <<"B">>, <<"A", "b">>, <<"b", " ", "A">>}

SearchPool ==
    {<<>>}
        \cup {[name |-> n] : n \in SearchStrings}
        \cup {[address |-> a] : a \in SearchStrings}
        \cup {[name |-> n, address |-> a] : n \in SearchStrings, a \in SearchStrings}

SearchResponses == {withIds(<<b>>) : b \in SearchPool}

Alphabet == {"a", "B", " "}

SearchTerms == SeqsUpTo(Alphabet, MaxTermLen)

\* the severity filter: one building with no waypoints, no cracks, null
\* widths and widths on both sides of each threshold, in one or two waypoints
SeverityWidths == {Null, CautionThreshold - 1, CautionThreshold,
                   SevereThreshold - 1, SevereThreshold}

CrackLists(n) == {[i \in 1..Len(ws) |-> crack(ws[i], i)] : ws \in SeqsUpTo(SeverityWidths, n)}

WaypointsOf(n) == {[label |-> "w"]} \cup {[label |-> "w", cracks |-> cs] : cs \in CrackLists(n)}

SeverityPool ==
    {[name |-> <<"a">>]}
        \cup {[name |-> <<"a">>, waypoints |-> <<>>]}
        \cup {[name |-> <<"a">>, waypoints |-> <<w>>] : w \in WaypointsOf(MaxCracks)}
        \cup {[name |-> <<"a">>, waypoints |-> <<w, v>>] :
                  w \in WaypointsOf(MaxCracks), v \in WaypointsOf(1)}

SeverityResponses == {withIds(<<b>>) : b \in SeverityPool}

\* the rankings: lists of up to MaxStatBuildings buildings whose counts,
\* maxima and averages tie and differ
StatPool ==
    { [name |-> <<"a">>],
      [name |-> <<"a">>, waypoints |-> <<[label |-> "w", cracks |-> <<crack(Null, 1)>>]>>],
      [name |-> <<"a">>, waypoints |-> <<[label |-> "w", cracks |-> <<crack(10, 1)>>]>>],
      [name |-> <<"a">>,
       waypoints |-> <<[label |-> "w", cracks |-> <<crack(10, 1), crack(30, 2)>>]>>],
      [name |-> <<"a">>,
       waypoints |-> <<[label |-> "w", cracks |-> <<crack(30, 2), crack(Null, 1)>>]>>],
      [name |-> <<"a">>,
       waypoints |-> <<[label |-> "w", cracks |-> <<crack(20, 1)>>],
                       [label |-> "v", cracks |-> <<crack(20, 3), crack(20, 2)>>]>>],
      [name |-> <<"a">>,
       waypoints |-> <<[label |-> "w"],
                       [label |-> "v",
                        cracks |-> <<crack(25, 1), crack(10, 2), crack(10, 3)>>]>>] }

StatResponses == {withIds(s) : s \in SeqsUpTo(StatPool, MaxStatBuildings)}

\* fetch() rejects, or resolves with a response that is ok or not and whose
\* body parses as JSON (field json) or does not
OutcomesOf(R) ==
    {[kind |-> "rejected"]}
        \cup {[kind |-> "response", ok |-> o] : o \in BOOLEAN}
        \cup {[kind |-> "response", ok |-> o, json |-> d] : o \in BOOLEAN, d \in R}

-----------------------------------------------------------------------------
(* The component *)

Deps ==
    [ran |-> TRUE, buildings |-> buildings, searchTerm |-> searchTerm,
     activeFilters |-> activeFilters, loading |-> loading, error |-> error]

Rendered == loading = FALSE /\ error = Unset

Init ==
    /\ buildings = <<>>
    /\ filteredBuildings = <<>>
    /\ loading = TRUE
    /\ error = Unset
    /\ searchTerm = <<>>
    /\ activeFilters = <<>>
    /\ crackStats = computeCrackStats(<<>>)
    /\ fetchCount = 0
    /\ response = [kind |-> "not_sent"]
    /\ lastDeps = [ran |-> FALSE]

\* the body of the effect of lines 140-169
filterEffectBody ==
    /\ filteredBuildings' =
           IF loading \/ error /= Unset
           THEN filteredBuildings
           ELSE filterResult(buildings, searchTerm, activeFilters)
    /\ lastDeps' = Deps

\* first commit: both effects run; lines 123-124 issue the request
Mount ==
    /\ lastDeps.ran = FALSE
    /\ fetchCount' = fetchCount + 1
    /\ response' = [kind |-> "pending"]
    /\ filterEffectBody
    /\ UNCHANGED <<buildings, loading, error, searchTerm, activeFilters, crackStats>>

\* FetchSettle without the res.ok test of line 126
FetchSettle_noOkTest(outcome) ==
    /\ response.kind = "pending"
    /\ response' = outcome
    /\ IF outcome.kind = "rejected"
       THEN /\ error' = NetworkErrorMessage
            /\ UNCHANGED buildings
       ELSE IF ~Has(outcome, "json")
       THEN /\ error' = JsonErrorMessage
            /\ UNCHANGED buildings
       ELSE /\ buildings' = outcome.json
            /\ UNCHANGED error
    /\ loading' = FALSE
    /\ crackStats' = computeCrackStats(buildings')
    /\ UNCHANGED <<filteredBuildings, searchTerm, activeFilters, fetchCount, lastDeps>>

\* the promise chain of lines 125-136, and the render that follows
FetchSettle(outcome) ==
    /\ response.kind = "pending"
    /\ response' = outcome
    /\ IF outcome.kind = "rejected"
       THEN /\ error' = NetworkErrorMessage
            /\ UNCHANGED buildings
       ELSE IF ~outcome.ok
       THEN /\ error' = LoadFailedMessage
            /\ UNCHANGED buildings
       ELSE IF ~Has(outcome, "json")
       THEN /\ error' = JsonErrorMessage
            /\ UNCHANGED buildings
       ELSE /\ buildings' = outcome.json
            /\ UNCHANGED error
    /\ loading' = FALSE
    /\ crackStats' = computeCrackStats(buildings')
    /\ UNCHANGED <<filteredBuildings, searchTerm, activeFilters, fetchCount, lastDeps>>

\* FilterEffect storing its result in the source list as well
FilterEffect_overwritesSource ==
    /\ lastDeps.ran
    /\ lastDeps /= Deps
    /\ filterEffectBody
    /\ buildings' = filteredBuildings'
    /\ crackStats' = computeCrackStats(buildings')
    /\ UNCHANGED <<loading, error, searchTerm, activeFilters, fetchCount, response>>

\* the effect of lines 140-169: useEffect runs it after the render that
\* changed a dependency has been committed
FilterEffect ==
    /\ lastDeps.ran
    /\ lastDeps /= Deps
    /\ filterEffectBody
    /\ UNCHANGED <<buildings, loading, error, searchTerm, activeFilters,
                   crackStats, fetchCount, response>>

\* onChange of the search input, line 302.  The input exists only on the
\* rendered page, and React runs the pending effects of the last commit
\* before it processes the update of a later event.
SetSearchTerm(value) ==
    /\ Rendered
    /\ lastDeps = Deps
    /\ searchTerm' = value
    /\ UNCHANGED <<buildings, filteredBuildings, loading, error, activeFilters,
                   crackStats, fetchCount, response, lastDeps>>

\* onClick of a filter button, lines 312-318
ToggleFilter(f) ==
    /\ Rendered
    /\ lastDeps = Deps
    /\ activeFilters' =
           IF Includes(activeFilters, f)
           THEN SelectSeq(activeFilters, LAMBDA x : x /= f)
           ELSE Append(activeFilters, f)
    /\ UNCHANGED <<buildings, filteredBuildings, loading, error, searchTerm,
                   crackStats, fetchCount, response, lastDeps>>

Settle(R) == response.kind = "pending" /\ \E o \in OutcomesOf(R) : FetchSettle(o)

Type(T) == \E t \in T : SetSearchTerm(t)

Toggle == \E i \in 1..Len(FilterLabels) : ToggleFilter(FilterLabels[i])

\* the page, with a user who types and toggles
Next == Mount \/ Settle(Responses) \/ FilterEffect \/ Type(LifeTerms) \/ Toggle

Spec == Init /\ [][Next]_vars

\* the page, with a user who only types
NextSearch == Mount \/ Settle(SearchResponses) \/ FilterEffect \/ Type(SearchTerms)

SpecSearch == Init /\ [][NextSearch]_vars

\* the page, with a user who only toggles the filters
NextSeverity == Mount \/ Settle(SeverityResponses) \/ FilterEffect \/ Toggle

SpecSeverity == Init /\ [][NextSeverity]_vars

\* the page, with a user who only looks at the summary cards
NextStats == Mount \/ Settle(StatResponses) \/ FilterEffect

SpecStats == Init /\ [][NextStats]_vars

-----------------------------------------------------------------------------
(* Claims about the life cycle, under Spec *)

Settled == response.kind \in {"rejected", "response"}

Loaded == response.kind = "response" /\ response.ok /\ Has(response, "json")

Failed == response.kind = "rejected" \/ (response.kind = "response" /\ ~response.ok)

EffectsFlushed == lastDeps = Deps

C1_States ==
    /\ fetchCount <= 1
    /\ fetchCount = 0 <=> response.kind = "not_sent"
    /\ ~Settled => loading /\ error = Unset /\ buildings = <<>>
    /\ Loaded => ~loading /\ error = Unset /\ buildings = response.json
    /\ Failed => /\ ~loading
                 /\ error /= Unset
                 /\ buildings = <<>>
                 /\ filteredBuildings = <<>>

C1_Steps ==
    /\ fetchCount >= 1 => fetchCount' = fetchCount
    /\ ~loading => ~loading'
    /\ error /= Unset => error' = error

\* C1: the component starts loading and issues exactly one GET /buildings;
\* it stays loading until the fetch settles; a 2xx response with a JSON body
\* gives the loaded state (loading false, error unset, buildings = response);
\* a network failure or a non-2xx response gives the error state (loading
\* false, error set, buildings empty, nothing listed); afterwards no step
\* issues another fetch, leaves the error state or sets loading again.
C1_LoadLifecycle == [](C1_States) /\ [][C1_Steps]_vars

C1_Witness ==
    /\ response.kind = "response"
    /\ ~response.ok
    /\ Has(response, "json")
    /\ response.json /= <<>>
    /\ error = LoadFailedMessage
    /\ ~loading
    /\ EffectsFlushed

\* C9: in every state in which the page is rendered (loading false, no
\* error) the displayed list is the filter pipeline applied to the current
\* buildings, searchTerm and activeFilters.
C9_DisplayedListCurrent ==
    Rendered => filteredBuildings = filterResult(buildings, searchTerm, activeFilters)

C10_Steps ==
    Rendered => UNCHANGED <<buildings, crackStats, loading, error, fetchCount, response>>

C10_States ==
    Rendered => /\ buildings = response.json
                /\ crackStats = computeCrackStats(response.json)

\* C10: once the page is rendered, search keystrokes and filter toggles (and
\* the effect they trigger) leave buildings equal to the list the fetch
\* delivered, and the total and the three rankings as computed from it; only
\* searchTerm, activeFilters and filteredBuildings change.
C10_SourceUnchanged == [](C10_States) /\ [][C10_Steps]_vars

C10_Witness ==
    /\ Rendered
    /\ EffectsFlushed
    /\ searchTerm /= <<>>
    /\ activeFilters /= <<>>
    /\ filteredBuildings /= <<>>
    /\ Len(filteredBuildings) < Len(buildings)

-----------------------------------------------------------------------------
(* What the claims say of a building, stated without the operators above *)

Listed(b) == \E j \in 1..Len(filteredBuildings) : filteredBuildings[j] = b

\* <<i, j>>: the j-th crack record of the i-th waypoint
CrackRecords(b) ==
    IF Has(b, "waypoints")
    THEN UNION {IF Has(b.waypoints[i], "cracks")
                THEN {<<i, j>> : j \in 1..Len(b.waypoints[i].cracks)}
                ELSE {} : i \in 1..Len(b.waypoints)}
    ELSE {}

NumericWidths(b) ==
    {b.waypoints[p[1]].cracks[p[2]].widthMm : p \in CrackRecords(b)} \ {Null}

LargestWidth(b) == CHOOSE m \in NumericWidths(b) : \A w \in NumericWidths(b) : w <= m

LabelOf(w) == IF w >= 30 THEN SEVERE ELSE IF w >= 20 THEN CAUTION ELSE OBSERVE

SeverityOf(b) == IF NumericWidths(b) = {} THEN OBSERVE ELSE LabelOf(LargestWidth(b))

IsBlank(s) == \A i \in 1..Len(s) : s[i] = " "

Lowered(s) == [i \in 1..Len(s) |-> CASE s[i] = "A" -> "a" [] s[i] = "B" -> "b" [] OTHER -> s[i]]

\* t is s without its leading and trailing spaces
IsTrimOf(t, s) ==
    \E i \in 0..Len(s) :
        /\ i + Len(t) <= Len(s)
        /\ t = SubSeq(s, i + 1, i + Len(t))
        /\ IsBlank(SubSeq(s, 1, i))
        /\ IsBlank(SubSeq(s, i + Len(t) + 1, Len(s)))
        /\ t /= <<>> => t[1] /= " " /\ t[Len(t)] /= " "

Trimmed(s) ==
    CHOOSE t \in {SubSeq(s, i, j) : i \in 1..Len(s) + 1, j \in 0..Len(s)} : IsTrimOf(t, s)

IsSubstring(t, s) == \E i \in 0..Len(s), j \in 0..Len(s) : i <= j /\ SubSeq(s, i + 1, j) = t

TermMatches(b, t) ==
    \/ t = <<>>
    \/ Has(b, "name") /\ IsSubstring(t, Lowered(b.name))
    \/ Has(b, "address") /\ IsSubstring(t, Lowered(b.address))

PassesText(b) == TermMatches(b, Lowered(Trimmed(searchTerm)))

FilterSet == {activeFilters[i] : i \in 1..Len(activeFilters)}

Shown == Rendered /\ EffectsFlushed

-----------------------------------------------------------------------------
(* Claims about the filter pipeline *)

\* C7: with an empty search term and no active filter, the list the effect
\* stores is the full building list: same elements, same order.
C7_NoFilterIsIdentity ==
    Shown /\ searchTerm = <<>> /\ activeFilters = <<>> => filteredBuildings = buildings

C7_Witness ==
    /\ Shown
    /\ searchTerm = <<>>
    /\ activeFilters = <<>>
    /\ Len(buildings) >= 2
    /\ ~Has(buildings[1], "name") /\ ~Has(buildings[1], "address")
    /\ filteredBuildings = buildings

\* C4: a building passes the text filter iff the trimmed, lower-cased term
\* is empty or is a substring of its lower-cased name or address; a blank
\* term keeps every building, and a building with neither name nor address
\* is kept only when the trimmed term is empty.
C4_TextFilter ==
    Shown /\ activeFilters = <<>> =>
        /\ \A i \in 1..Len(buildings) : Listed(buildings[i]) <=> PassesText(buildings[i])
        /\ IsBlank(searchTerm) => filteredBuildings = buildings
        /\ \A i \in 1..Len(buildings) :
               /\ ~Has(buildings[i], "name")
               /\ ~Has(buildings[i], "address")
               /\ Listed(buildings[i])
               => IsBlank(searchTerm)

C4_Witness ==
    /\ Shown
    /\ searchTerm = <<" ", "B">>
    /\ Len(buildings) = 1
    /\ Has(buildings[1], "name") /\ buildings[1].name = <<"a">>
    /\ Has(buildings[1], "address") /\ buildings[1].address = <<"A", "b">>
    /\ filteredBuildings = buildings

\* C3: with a non-empty active-filter set, a building that passed the text
\* filter is kept iff the severity of the largest of its non-null widths is
\* in the set, a building without a numeric width counting as observe; with
\* an empty set the step removes nothing.
C3_SeverityFilter ==
    Shown =>
        \A i \in 1..Len(buildings) :
            Listed(buildings[i]) <=>
                /\ PassesText(buildings[i])
                /\ activeFilters = <<>> \/ SeverityOf(buildings[i]) \in FilterSet

C3_Witness ==
    /\ Shown
    /\ activeFilters = <<CAUTION>>
    /\ Len(buildings) = 1
    /\ Has(buildings[1], "waypoints")
    /\ Len(buildings[1].waypoints) = 2
    /\ waypointWidths(buildings[1].waypoints[1]) = <<>>
    /\ NumericWidths(buildings[1]) = {20}
    /\ filteredBuildings = buildings

\* C2: getCrackSeverity gives exactly one of the three labels: severe from
\* 0.3 mm, caution from 0.2 mm to below 0.3 mm, observe below 0.2 mm and for
\* a null width.
C2_SeverityThresholds ==
    \A i \in 1..Len(buildings) :
        LET w == filterMaxWidth(buildings[i])
            label == getCrackSeverity(w)
        IN  /\ label \in {SEVERE, CAUTION, OBSERVE}
            /\ label = SEVERE <=> (w /= Null /\ w >= 30)
            /\ label = CAUTION <=> (w /= Null /\ w >= 20 /\ w < 30)
            /\ label = OBSERVE <=> (w = Null \/ w < 20)

C2_Witness ==
    /\ Shown
    /\ Len(buildings) = 1
    /\ filterMaxWidth(buildings[1]) = 30
    /\ activeFilters = <<SEVERE>>
    /\ filteredBuildings = buildings

-----------------------------------------------------------------------------
(* Claims about the summary cards and the building cards *)

Rankings == <<crackStats.sortedByCount, crackStats.sortedByWidth, crackStats.sortedByAvgWidth>>

\* entry e of ranking n is at least entry f in the metric of that ranking
AtLeast(n, e, f) ==
    CASE n = 1 -> e.crackCount >= f.crackCount
      [] n = 2 -> e.maxWidth >= f.maxWidth
      [] n = 3 -> e.avgWidth[1] * f.avgWidth[2] >= f.avgWidth[1] * e.avgWidth[2]

\* C5: each of the three rankings has at most 3 entries, is sorted in
\* descending order of its own metric, lists only buildings of the input
\* and never a building with zero cracks.
C5_Rankings ==
    \A n \in 1..3 :
        LET r == Rankings[n]
        IN  /\ Len(r) <= 3
            /\ \A i \in 1..Len(r), j \in 1..Len(r) : i < j => AtLeast(n, r[i], r[j])
            /\ \A i \in 1..Len(r) :
                   \E k \in 1..Len(buildings) :
                       /\ buildings[k].id = r[i].id
                       /\ CrackRecords(buildings[k]) /= {}

C5_Witness ==
    /\ Rendered
    /\ Len(buildings) = 4
    /\ \A k \in 1..4 : NumericWidths(buildings[k]) /= {}
    /\ \A n \in 1..3 : Len(Rankings[n]) = 3
    /\ crackStats.sortedByCount[1].crackCount > crackStats.sortedByCount[3].crackCount
    /\ crackStats.sortedByCount[1].id = 4
    /\ crackStats.sortedByWidth[1].id = 2
    /\ crackStats.sortedByAvgWidth[1].id = 3

RECURSIVE RecordTotal(_)
RecordTotal(bs) ==
    IF bs = <<>> THEN 0 ELSE Cardinality(CrackRecords(Head(bs))) + RecordTotal(Tail(bs))

\* C6: the total crack count of crackStats is the number of crack records
\* over all waypoints of all buildings, each record counted once whether or
\* not its width is null.
C6_TotalCountsEveryRecord == crackStats.totalCracks = RecordTotal(buildings)

HasNoCracks(b) ==
    \/ ~Has(b, "waypoints")
    \/ \A i \in 1..Len(b.waypoints) :
           ~Has(b.waypoints[i], "cracks") \/ b.waypoints[i].cracks = <<>>

\* C8: for a building with no cracks (no waypoints field, no waypoint, or
\* only waypoints without cracks) the card computes crack count 0, maximum
\* width 0, average width 0 and last-checked null without throwing, and the
\* building's severity is observe.
C8_NoCrackMetrics ==
    Rendered =>
        \A j \in 1..Len(filteredBuildings) :
            LET b == filteredBuildings[j]
                card == BuildingCard(b)
            IN  HasNoCracks(b) =>
                    /\ ~card.threw
                    /\ card.crackCount = 0
                    /\ card.maxWidth = 0
                    /\ card.avgWidth = 0
                    /\ card.lastChecked = Null
                    /\ getCrackSeverity(card.maxWidth) = OBSERVE
                    /\ getCrackSeverity(filterMaxWidth(b)) = OBSERVE

C8_Witness ==
    /\ Rendered
    /\ Len(filteredBuildings) = 1
    /\ Has(filteredBuildings[1], "waypoints")
    /\ Len(filteredBuildings[1].waypoints) = 2
    /\ ~Has(filteredBuildings[1].waypoints[1], "cracks")
    /\ Has(filteredBuildings[1].waypoints[2], "cracks")
    /\ filteredBuildings[1].waypoints[2].cracks = <<>>
    /\ activeFilters = <<OBSERVE>>

-----------------------------------------------------------------------------
(* Claims about the card and the filter together *)

WidthsWithNull(b) == {b.waypoints[p[1]].cracks[p[2]].widthMm : p \in CrackRecords(b)}

\* C11: for every building, with any mix of null and numeric widths, the
\* maximum width its card shows (a null width counting as 0) classifies to
\* the label the severity filter computes for it (null widths left out, null
\* when none remains); so a building listed under an active filter shows a
\* card maximum inside the threshold range of one of the active labels.
C11_CardAgreesWithFilter ==
    /\ \A i \in 1..Len(buildings) :
           getCrackSeverity(BuildingCard(buildings[i]).maxWidth)
               = getCrackSeverity(filterMaxWidth(buildings[i]))
    /\ Shown /\ activeFilters /= <<>> =>
           \A j \in 1..Len(filteredBuildings) :
               LabelOf(BuildingCard(filteredBuildings[j]).maxWidth) \in FilterSet

C11_Witness ==
    /\ Shown
    /\ activeFilters = <<CAUTION>>
    /\ Len(filteredBuildings) = 1
    /\ Len(filteredBuildings[1].waypoints) = 2
    /\ WidthsWithNull(filteredBuildings[1]) = {Null, 20}
    /\ waypointWidths(filteredBuildings[1].waypoints[1]) = <<>>
    /\ BuildingCard(filteredBuildings[1]).maxWidth = 20

====
